---------------------------- MODULE Spec2Model ----------------------------
(***************************************************************************)
(* Model of app/main.py: a RESP-style server answering PING and ECHO.      *)
(*                                                                         *)
(* One coroutine (handle_command) runs per accepted connection.  It reads  *)
(* bytes from an asyncio StreamReader, decodes one value (read_data),      *)
(* dispatches it and writes the reply to the StreamWriter.  A step of the  *)
(* model is the code between two awaits of the coroutine.                  *)
(*                                                                         *)
(* Bytes are their integer codes: 13 = \r, 10 = \n, 42 = *, 43 = +,        *)
(* 36 = $, 32 = space, 45 = -, 48..57 = digits.                            *)
(***************************************************************************)
EXTENDS Integers, Sequences, FiniteSets, TLC

VARIABLES conn

vars == <<conn>>

(***************************************************************************)
(* Bounds of the checked instance.                                         *)
(***************************************************************************)
MaxReqs == 2

MaxArgs == 2

MaxLen == 2

(***************************************************************************)
(* Byte strings and the str methods the code uses.                         *)
(***************************************************************************)
END_OF_FIELD == <<13, 10>>

Min(a, b) == IF a < b THEN a ELSE b

Last(s) == s[Len(s)]

Front(s) == SubSeq(s, 1, Len(s) - 1)

Drop(s, k) == SubSeq(s, k + 1, Len(s))

Take(s, k) == SubSeq(s, 1, k)

\* the concatenation of a sequence of byte strings
RECURSIVE Flatten(_)
Flatten(ss) == IF ss = <<>> THEN <<>> ELSE Head(ss) \o Flatten(Tail(ss))

\* bytes.endswith(suffix)
endswith(content, suffix) == /\ Len(content) >= Len(suffix)
                             /\ Drop(content, Len(content) - Len(suffix)) = suffix

\* the ASCII characters for which str.isspace() is true
Whitespace == {9, 10, 11, 12, 13, 28, 29, 30, 31, 32}

RECURSIVE lstrip(_)
lstrip(s) == IF s # <<>> /\ Head(s) \in Whitespace THEN lstrip(Tail(s)) ELSE s

RECURSIVE rstrip(_)
rstrip(s) == IF s # <<>> /\ Last(s) \in Whitespace THEN rstrip(Front(s)) ELSE s

\* bytes.decode("ascii") succeeds
IsAscii(b) == \A i \in 1..Len(b) : b[i] < 128

\* str.upper() on ASCII text
UpperByte(b) == IF b >= 97 /\ b <= 122 THEN b - 32 ELSE b

\* variant of upper: the text is compared as it was sent
upper_asis(s) == s

upper(s) == [i \in 1..Len(s) |-> UpperByte(s[i])]

IsDigit(b) == b >= 48 /\ b <= 57

RECURSIVE DigitsValue(_)
DigitsValue(s) == IF s = <<>> THEN 0
                  ELSE IF Last(s) = 95 THEN DigitsValue(Front(s))
                  ELSE 10 * DigitsValue(Front(s)) + (Last(s) - 48)

\* the digits-with-underscores part of a Python integer literal
IsDigitPart(s) == /\ s # <<>>
                  /\ IsDigit(Head(s))
                  /\ IsDigit(Last(s))
                  /\ \A i \in 1..Len(s) : IsDigit(s[i]) \/ s[i] = 95
                  /\ \A i \in 1..(Len(s) - 1) : ~(s[i] = 95 /\ s[i + 1] = 95)

\* int(text): optional sign, then digits; raises ValueError otherwise
int(text) == LET t == rstrip(lstrip(text))
                 signed == t # <<>> /\ Head(t) \in {43, 45}
                 body == IF signed THEN Tail(t) ELSE t
                 mag == DigitsValue(body)
             IN IF IsDigitPart(body)
                THEN [ok |-> TRUE, v |-> IF signed /\ Head(t) = 45 THEN 0 - mag ELSE mag]
                ELSE [ok |-> FALSE, v |-> 0]

\* str(n) of a non-negative integer, as f"{len(result)}" formats it
RECURSIVE str(_)
str(n) == IF n < 10 THEN <<48 + n>> ELSE str(n \div 10) \o <<48 + (n % 10)>>

(***************************************************************************)
(* Decoded values: Python str and list.                                    *)
(***************************************************************************)
Str(s) == [t |-> "str", s |-> s, l |-> <<>>]

List(l) == [t |-> "list", s |-> <<>>, l |-> l]

PING == <<80, 73, 78, 71>>

ECHO == <<69, 67, 72, 79>>

PONG == <<43, 80, 79, 78, 71, 13, 10>>

(***************************************************************************)
(* The coroutine of one connection.                                        *)
(*                                                                         *)
(*   stream    bytes the peer has yet to deliver to the StreamReader       *)
(*   eof       the peer has closed: reads on an empty stream return b""    *)
(*   pc        "read_data" (line 70), "dispatch" (lines 71-78) or "closed" *)
(*             (an exception has left handle_command)                      *)
(*   stack     the activations of read_simple_string, read_bulk_string and *)
(*             read_array below handle_command, innermost last; kept as    *)
(*             the traceback when an exception is raised                   *)
(*   command   the value read_data returned to handle_command              *)
(*   out       the bytes written to the StreamWriter                       *)
(*   error     the exception that ended the coroutine, or "none"           *)
(* History, for stating properties:                                        *)
(*   sent      the requests the peer set out to send                       *)
(*   consumed  the bytes the reads have returned so far                    *)
(*   reqStart  Len(consumed) when the current request's first read began   *)
(*   reqEnd    Len(consumed) when read_data returned the current request   *)
(*   log       one record per value handed to the dispatcher               *)
(***************************************************************************)
Frame(fn) == [fn |-> fn, pc |-> "read_next_field", content |-> <<>>, n |-> 0, i |-> 0, bytes_read |-> <<>>, end_of_field |-> <<>>, result |-> <<>>]

Top(s) == s.stack[Len(s.stack)]

SetTop(s, f) == [s EXCEPT !.stack = [s.stack EXCEPT ![Len(s.stack)] = f]]

Push(s, f) == [s EXCEPT !.stack = Append(s.stack, f)]

\* variant of Raise: the exception is caught at the top of the loop, which
\* goes on to the next request
Raise_resume(s, exc) == [s EXCEPT !.pc = "read_data", !.stack = <<>>, !.error = exc]

\* an exception propagates out of handle_command: the coroutine ends
Raise(s, exc) == [s EXCEPT !.pc = "closed", !.error = exc]

\* the sizes StreamReader.read(n) can return: at least one byte as soon as
\* one is available, at most n, as many as have arrived; b"" only at EOF;
\* no result (the coroutine stays suspended) while nothing has arrived
ReadSizes(s, n) == IF s.stream = <<>> THEN (IF s.eof THEN {0} ELSE {}) ELSE 1..Min(n, Len(s.stream))

\* the reader after a read that returned k bytes
Read(s, k) == [s EXCEPT !.stream = Drop(s.stream, k), !.consumed = s.consumed \o Take(s.stream, k)]

\* variant of append: the new element goes in front
prepend(result, v) == <<v>> \o result

\* list.append
append(result, v) == Append(result, v)

\* read_data hands value v to its caller: read_array (line 65) appends it
\* and, once its loop is over, returns its list in turn; handle_command
\* (line 70) goes on to dispatch it
RECURSIVE Return(_, _)
Return(s, v) == LET rest == Front(s.stack)
                IN IF rest = <<>>
                   THEN [s EXCEPT !.stack = rest, !.pc = "dispatch", !.command = v, !.reqEnd = Len(s.consumed)]
                   ELSE LET f == Last(rest)
                            result == append(f.result, v)
                            g == [f EXCEPT !.result = result, !.i = f.i + 1]
                            s1 == [s EXCEPT !.stack = [rest EXCEPT ![Len(rest)] = g]]
                        IN IF g.i = f.n THEN Return(s1, List(result)) ELSE s1

\* read_type: the type for the byte read, or the exception of line 22
read_type(dtype) == CASE dtype = <<42>> -> "LIST"
                      [] dtype = <<43>> -> "SimpleString"
                      [] dtype = <<36>> -> "BulkString"
                      [] OTHER -> "raise"

\* read_data up to the first await of the reader it selects
read_data(s, k) == LET s0 == IF s.stack = <<>> THEN [s EXCEPT !.reqStart = Len(s.consumed)] ELSE s
                       s1 == Read(s0, k)
                       dtype == read_type(Take(s.stream, k))
                   IN CASE dtype = "LIST" -> Push(s1, Frame("read_array"))
                        [] dtype = "SimpleString" -> Push(s1, Frame("read_simple_string"))
                        [] dtype = "BulkString" -> Push(s1, Frame("read_bulk_string"))
                        [] OTHER -> Raise(s1, "Exception")

\* read_simple_string after read_next_field returned bytes_read
read_simple_string(s, bytes_read) == IF ~IsAscii(bytes_read) THEN Raise(s, "UnicodeDecodeError")
                                     ELSE Return(s, Str(rstrip(lstrip(bytes_read))))

\* read_bulk_string after read_next_field returned string_length, up to the
\* first read of the content loop or, when the loop is empty, of the mark
read_bulk_string(s, string_length) == LET n == int(string_length)
                                          f == Top(s)
                                      IN IF ~IsAscii(string_length) THEN Raise(s, "UnicodeDecodeError")
                                         ELSE IF ~n.ok THEN Raise(s, "ValueError")
                                         ELSE SetTop(s, [f EXCEPT !.n = n.v, !.pc = IF n.v > 0 THEN "content" ELSE "end_of_field"])

\* read_array after read_next_field returned array_length, up to the first
\* read_data of its loop
read_array(s, array_length) == LET n == int(array_length)
                                   f == Top(s)
                               IN IF ~IsAscii(array_length) THEN Raise(s, "UnicodeDecodeError")
                                  ELSE IF ~n.ok THEN Raise(s, "ValueError")
                                  ELSE IF n.v > 0 THEN SetTop(s, [f EXCEPT !.n = n.v, !.pc = "elements"])
                                  ELSE Return(s, List(<<>>))

\* read_next_field has returned content to the function that called it
AfterField(s, content) == CASE Top(s).fn = "read_simple_string" -> read_simple_string(s, content)
                            [] Top(s).fn = "read_bulk_string" -> read_bulk_string(s, content)
                            [] Top(s).fn = "read_array" -> read_array(s, content)

\* variant of read_next_field: the loop ends only at the end of field mark,
\* an empty read does not end it
read_next_field_until_mark(s, k) == LET s1 == Read(s, k)
                                        content == Top(s).content \o Take(s.stream, k)
                                        s2 == SetTop(s1, [Top(s) EXCEPT !.content = content])
                                    IN IF endswith(content, END_OF_FIELD) THEN AfterField(s2, content) ELSE s2

\* one turn of the loop of read_next_field: read(1) returned k bytes
read_next_field(s, k) == LET s1 == Read(s, k)
                             content == Top(s).content \o Take(s.stream, k)
                             s2 == SetTop(s1, [Top(s) EXCEPT !.content = content])
                         IN IF k = 0 \/ endswith(content, END_OF_FIELD) THEN AfterField(s2, content) ELSE s2

\* one turn of the content loop of read_bulk_string: read(1) returned k bytes
read_bulk_content(s, k) == LET f == Top(s)
                               g == [f EXCEPT !.bytes_read = f.bytes_read \o Take(s.stream, k), !.i = f.i + 1]
                           IN SetTop(Read(s, k), [g EXCEPT !.pc = IF g.i = f.n THEN "end_of_field" ELSE "content"])

\* variant of read_bulk_end: the mark is read and not compared
read_bulk_end_unchecked(s, k) == LET f == Top(s)
                                     s1 == SetTop(Read(s, k), [f EXCEPT !.end_of_field = Take(s.stream, k)])
                                 IN IF ~IsAscii(f.bytes_read) THEN Raise(s1, "UnicodeDecodeError")
                                    ELSE Return(s1, Str(rstrip(lstrip(f.bytes_read))))

\* the end of read_bulk_string: read(2) returned k bytes
read_bulk_end(s, k) == LET f == Top(s)
                           end_of_field == Take(s.stream, k)
                           s1 == SetTop(Read(s, k), [f EXCEPT !.end_of_field = end_of_field])
                       IN IF end_of_field # END_OF_FIELD THEN Raise(s1, "AssertionError")
                          ELSE IF ~IsAscii(f.bytes_read) THEN Raise(s1, "UnicodeDecodeError")
                          ELSE Return(s1, Str(rstrip(lstrip(f.bytes_read))))

(***************************************************************************)
(* The dispatcher and the handlers.                                        *)
(***************************************************************************)
\* variant of join: the arguments are concatenated without the separator
join_nosep(arguments) == Flatten([i \in 1..Len(arguments) |-> arguments[i].s])

\* " ".join(arguments)
RECURSIVE join(_)
join(arguments) == IF arguments = <<>> THEN <<>>
                   ELSE IF Len(arguments) = 1 THEN arguments[1].s
                   ELSE arguments[1].s \o <<32>> \o join(Tail(arguments))

make_bulk_string(arguments) == LET result == join(arguments)
                               IN <<36>> \o str(Len(result)) \o END_OF_FIELD \o result \o END_OF_FIELD

\* variant of write: the newest reply goes in front of the earlier ones
write_front(out, data) == data \o out

\* StreamWriter.write
write(out, data) == out \o data

\* handle_command is back at the top of its loop, the request answered
Done(s, handler, reply) == [s EXCEPT !.pc = "read_data", !.command = Str(<<>>), !.out = write(s.out, reply), !.log = Append(s.log, [start |-> s.reqStart, end |-> s.reqEnd, at |-> Len(s.consumed), cmd |-> s.command, handler |-> handler, reply |-> reply])]

\* variant of Fail: the exception is swallowed and the loop goes on, as for
\* an unrecognized command
Fail_ignore(s, exc) == Done(s, "none", <<>>)

\* the dispatcher raises exc
Fail(s, exc) == [Raise(s, exc) EXCEPT !.log = Append(s.log, [start |-> s.reqStart, end |-> s.reqEnd, at |-> Len(s.consumed), cmd |-> s.command, handler |-> exc, reply |-> <<>>])]

\* variant of handle_ping: PONG goes out as a bulk string
handle_ping_bulk(s) == Done(s, "handle_ping", make_bulk_string(<<Str(<<80, 79, 78, 71>>)>>))

handle_ping(s) == Done(s, "handle_ping", PONG)

\* variant of handle_echo: the bulk string is written twice
handle_echo_twice(s, arguments) == IF \E i \in 1..Len(arguments) : arguments[i].t # "str" THEN Fail(s, "TypeError")
                                   ELSE Done(s, "handle_echo", make_bulk_string(arguments) \o make_bulk_string(arguments))

\* join raises TypeError on an argument that is not a str
handle_echo(s, arguments) == IF \E i \in 1..Len(arguments) : arguments[i].t # "str" THEN Fail(s, "TypeError")
                             ELSE Done(s, "handle_echo", make_bulk_string(arguments))

\* variant of handle_command: an unrecognized name is answered -ERR\r\n
handle_command_err(s) == LET value == s.command
                             command == IF value.t = "list" THEN value.l[1] ELSE value
                             arguments == IF value.t = "list" THEN Tail(value.l) ELSE <<>>
                         IN IF value.t = "list" /\ value.l = <<>> THEN Fail(s, "ValueError")
                            ELSE IF command.t # "str" THEN Fail(s, "AttributeError")
                            ELSE CASE upper(command.s) = PING -> handle_ping(s)
                                   [] upper(command.s) = ECHO -> handle_echo(s, arguments)
                                   [] OTHER -> Done(s, "none", <<45, 69, 82, 82, 13, 10>>)

\* lines 71-78: from the value read_data returned to the top of the loop
handle_command(s) == LET value == s.command
                         command == IF value.t = "list" THEN value.l[1] ELSE value
                         arguments == IF value.t = "list" THEN Tail(value.l) ELSE <<>>
                     IN IF value.t = "list" /\ value.l = <<>> THEN Fail(s, "ValueError")
                        ELSE IF command.t # "str" THEN Fail(s, "AttributeError")
                        ELSE CASE upper(command.s) = PING -> handle_ping(s)
                               [] upper(command.s) = ECHO -> handle_echo(s, arguments)
                               [] OTHER -> Done(s, "none", <<>>)

(***************************************************************************)
(* The peer: the requests it sets out to send, framed as section 6 of the  *)
(* specification frames them.  A request is sent as an array of simple or  *)
(* bulk strings, as one inline simple or bulk string, or as raw bytes.     *)
(***************************************************************************)
SimpleString(text) == <<43>> \o text \o END_OF_FIELD

BulkString(text) == <<36>> \o str(Len(text)) \o END_OF_FIELD \o text \o END_OF_FIELD

Element(enc, text) == IF enc = 43 THEN SimpleString(text) ELSE BulkString(text)

Array(enc, texts) == <<42>> \o str(Len(texts)) \o END_OF_FIELD \o Flatten([i \in 1..Len(texts) |-> Element(enc, texts[i])])

ArrayReq(enc, texts) == [form |-> "array", enc |-> enc, texts |-> texts, bytes |-> Array(enc, texts)]

InlineReq(enc, text) == [form |-> "inline", enc |-> enc, texts |-> <<text>>, bytes |-> Element(enc, text)]

RawReq(bytes) == [form |-> "raw", enc |-> 0, texts |-> <<>>, bytes |-> bytes]

SeqsUpTo(S, n) == UNION {[1..k -> S] : k \in 0..n}

\* PING, PiNg, ECHO, echo and the unrecognized X
Names == {PING, <<80, 105, 78, 103>>, ECHO, <<101, 99, 104, 111>>, <<88>>}

\* the argument texts "hello" and " world"
ArgTexts == {<<104, 101, 108, 108, 111>>, <<32, 119, 111, 114, 108, 100>>}

\* every text of at most MaxLen bytes over "a" and space
Contents == SeqsUpTo({97, 32}, MaxLen)

\* byte sequences that are not well-formed requests of the two commands
RawFrames == {
    <<36, 49, 13, 10, 97, 88, 89>>,                                 \* $1\r\naXY
    <<36, 45, 49, 13, 10, 13, 10>>,                                 \* $-1\r\n\r\n
    <<42, 45, 49, 13, 10>>,                                         \* *-1\r\n
    <<36, 120, 13, 10>>,                                            \* $x\r\n
    <<42, 120, 13, 10>>,                                            \* *x\r\n
    <<42, 49, 13, 10, 42, 48, 13, 10>>,                             \* *1\r\n*0\r\n
    <<42, 50, 13, 10, 43, 80, 73, 78, 71, 13, 10, 42, 48, 13, 10>>, \* *2\r\n+PING\r\n*0\r\n
    <<42, 50, 13, 10, 43, 69, 67, 72, 79, 13, 10, 42, 48, 13, 10>>, \* *2\r\n+ECHO\r\n*0\r\n
    <<42, 50, 13, 10, 43, 69, 67, 72, 79, 13, 10, 36, 45, 49, 13, 10, 13, 10>>, \* *2\r\n+ECHO\r\n$-1\r\n\r\n
    <<58, 49, 13, 10>>,                                             \* :1\r\n
    <<43, 200, 13, 10>> }                                           \* + and a non-ASCII byte

\* the same arguments, in the same encoding, sent to a sequence of commands
CommandScripts == {[i \in 1..Len(names) |-> ArrayReq(enc, <<names[i]>> \o args)] : names \in SeqsUpTo(Names, MaxReqs) \ {<<>>}, enc \in {43, 36}, args \in SeqsUpTo(ArgTexts, MaxArgs)}

\* a sequence of commands without arguments in the inline form
InlineScripts == {[i \in 1..Len(names) |-> InlineReq(43, names[i])] : names \in SeqsUpTo(Names, MaxReqs) \ {<<>>}}

\* a command with arguments, then a command in the inline form
MixedScripts == {<<ArrayReq(enc, <<name>> \o args), InlineReq(43, other)>> : name \in Names, other \in Names, enc \in {43, 36}, args \in SeqsUpTo(ArgTexts, MaxArgs)}

\* one bulk string, alone or before a PING
BulkScripts == UNION {{<<InlineReq(36, text)>>, <<InlineReq(36, text), InlineReq(43, PING)>>} : text \in Contents}

\* a raw frame or the empty array, alone, before a PING or after a PING
RawScripts == UNION {{<<r>>, <<r, InlineReq(43, PING)>>, <<InlineReq(43, PING), r>>} : r \in {RawReq(b) : b \in RawFrames} \cup {ArrayReq(43, <<>>)}}

Scripts == CommandScripts \cup InlineScripts \cup MixedScripts \cup BulkScripts \cup RawScripts

Wire(script) == Flatten([i \in 1..Len(script) |-> script[i].bytes])

\* the coroutine as start_server's client_connected_cb starts it (line 96)
NewConn(script) == [stream |-> Wire(script), eof |-> FALSE, pc |-> "read_data", stack |-> <<>>, command |-> Str(<<>>), out |-> <<>>, error |-> "none", sent |-> script, consumed |-> <<>>, reqStart |-> 0, reqEnd |-> 0, log |-> <<>>]

(***************************************************************************)
(* The state machine.                                                      *)
(***************************************************************************)
Conns == {"c1"}

Init == \E script \in Scripts : conn = [c \in Conns |-> NewConn(script)]

\* the peer closes the connection; what it had not delivered never arrives
FeedEof(c) == /\ ~conn[c].eof
              /\ conn' = [conn EXCEPT ![c] = [conn[c] EXCEPT !.eof = TRUE, !.stream = <<>>]]

\* variant of ReadData: an exception raised in one coroutine stops the
\* event loop, and with it every other coroutine
ReadData_stops_all(c) == /\ conn[c].pc = "read_data"
                         /\ IF conn[c].stack = <<>> THEN TRUE ELSE Top(conn[c]).pc = "elements"
                         /\ \E k \in ReadSizes(conn[c], 1) :
                               conn' = [d \in DOMAIN conn |-> IF d = c THEN read_data(conn[c], k)
                                                              ELSE IF read_data(conn[c], k).pc = "closed" THEN Raise(conn[d], "CancelledError")
                                                              ELSE conn[d]]

\* line 70 or line 65: read_data reads the type byte
ReadData(c) == /\ conn[c].pc = "read_data"
               /\ IF conn[c].stack = <<>> THEN TRUE ELSE Top(conn[c]).pc = "elements"
               /\ \E k \in ReadSizes(conn[c], 1) : conn' = [conn EXCEPT ![c] = read_data(conn[c], k)]

\* line 39: read_next_field reads one byte
ReadNextField(c) == /\ conn[c].pc = "read_data"
                    /\ IF conn[c].stack = <<>> THEN FALSE ELSE Top(conn[c]).pc = "read_next_field"
                    /\ \E k \in ReadSizes(conn[c], 1) : conn' = [conn EXCEPT ![c] = read_next_field(conn[c], k)]

\* line 53: read_bulk_string reads one byte of content
ReadBulkContent(c) == /\ conn[c].pc = "read_data"
                      /\ IF conn[c].stack = <<>> THEN FALSE ELSE Top(conn[c]).pc = "content"
                      /\ \E k \in ReadSizes(conn[c], 1) : conn' = [conn EXCEPT ![c] = read_bulk_content(conn[c], k)]

\* line 54: read_bulk_string reads the end of field mark
ReadBulkEnd(c) == /\ conn[c].pc = "read_data"
                  /\ IF conn[c].stack = <<>> THEN FALSE ELSE Top(conn[c]).pc = "end_of_field"
                  /\ \E k \in ReadSizes(conn[c], 2) : conn' = [conn EXCEPT ![c] = read_bulk_end(conn[c], k)]

\* variant of HandleCommand: only a list is taken for a command, a bare
\* text is passed over
HandleCommand_list_only(c) == /\ conn[c].pc = "dispatch"
                              /\ conn' = [conn EXCEPT ![c] = IF conn[c].command.t = "str" THEN Done(conn[c], "none", <<>>) ELSE handle_command(conn[c])]

\* lines 71-78: dispatch, reply, back to the top of the loop
HandleCommand(c) == /\ conn[c].pc = "dispatch"
                    /\ conn' = [conn EXCEPT ![c] = handle_command(conn[c])]

Next == \/ \E c \in DOMAIN conn : FeedEof(c)
        \/ \E c \in DOMAIN conn : ReadData(c)
        \/ \E c \in DOMAIN conn : ReadNextField(c)
        \/ \E c \in DOMAIN conn : ReadBulkContent(c)
        \/ \E c \in DOMAIN conn : ReadBulkEnd(c)
        \/ \E c \in DOMAIN conn : HandleCommand(c)

Spec == Init /\ [][Next]_vars

\* two connections served by the same event loop (serve_forever, line 99),
\* each sent one request: a PING, an ECHO, a bulk string, a bulk string with
\* a wrong end mark, or an unknown type byte
MultiScripts == {<<InlineReq(43, PING)>>, <<ArrayReq(43, <<ECHO>>)>>, <<InlineReq(36, <<88>>)>>, <<RawReq(<<36, 49, 13, 10, 97, 88, 89>>)>>, <<RawReq(<<58, 49, 13, 10>>)>>}

InitMulti == \E s1 \in MultiScripts : \E s2 \in MultiScripts : conn = [c \in {"c1", "c2"} |-> NewConn(IF c = "c1" THEN s1 ELSE s2)]

SpecMulti == InitMulti /\ [][Next]_vars

\* a step of the coroutine of connection c: the event loop resumes it when
\* the read it awaits can return, and runs it to its next await
Step(c) == ReadData(c) \/ ReadNextField(c) \/ ReadBulkContent(c) \/ ReadBulkEnd(c) \/ HandleCommand(c)

\* one request, or a raw frame or an empty array next to a PING
LiveScripts == {script \in Scripts : Len(script) = 1} \cup RawScripts

InitLive == \E script \in LiveScripts : conn = [c \in Conns |-> NewConn(script)]

\* the event loop (serve_forever, line 99) does not starve a coroutine whose
\* read can return: a read on a stream that holds bytes, or that is at its
\* end, completes
SpecLive == InitLive /\ [][Next]_vars /\ \A c \in Conns : WF_vars(Step(c))

(***************************************************************************)
(* Properties.                                                             *)
(***************************************************************************)
\* the request bytes of a log record
RawOf(s, e) == SubSeq(s.consumed, e.start + 1, e.end)

\* the value has a command name: it is text, or a list that begins with text
HasName(cmd) == IF cmd.t = "str" THEN TRUE ELSE cmd.l # <<>> /\ cmd.l[1].t = "str"

NameOf(cmd) == IF cmd.t = "str" THEN cmd.s ELSE cmd.l[1].s

ArgsOf(cmd) == IF cmd.t = "str" THEN <<>> ELSE Tail(cmd.l)

\* name spells the upper-case word in some mix of letter cases
Spells(name, word) == /\ Len(name) = Len(word)
                      /\ \A i \in 1..Len(word) : name[i] = word[i] \/ name[i] = word[i] + 32

\* C1: within one connection the bytes written are the replies of the
\* requests in the order the requests were read, each request is answered
\* with no byte read since its decoding ended, and no byte of the next
\* request is read before that.
C1_RepliesInRequestOrder == \A c \in DOMAIN conn :
    LET s == conn[c]
    IN /\ s.out = Flatten([i \in 1..Len(s.log) |-> s.log[i].reply])
       /\ \A i \in 1..Len(s.log) : s.log[i].start < s.log[i].end /\ s.log[i].at = s.log[i].end
       /\ \A i \in 1..(Len(s.log) - 1) : s.log[i].at <= s.log[i + 1].start
       /\ s.log # <<>> => Last(s.log).at <= s.reqStart \/ Last(s.log).start = s.reqStart
       /\ s.pc = "dispatch" => Len(s.consumed) = s.reqEnd /\ (s.log # <<>> => Last(s.log).at <= s.reqStart)

\* two requests have been answered with different replies
C1_Witness == \E c \in DOMAIN conn : /\ Len(conn[c].log) >= 2
                                     /\ conn[c].log[1].reply # <<>>
                                     /\ conn[c].log[2].reply # <<>>
                                     /\ conn[c].log[1].reply # conn[c].log[2].reply

\* C2: a request whose command name is PING in any letter case is answered
\* with exactly +PONG\r\n, whatever its arguments.
C2_PingRepliesPong == \A c \in DOMAIN conn : \A i \in 1..Len(conn[c].log) :
    LET e == conn[c].log[i]
    IN HasName(e.cmd) /\ Spells(NameOf(e.cmd), <<80, 73, 78, 71>>) => e.reply = <<43, 80, 79, 78, 71, 13, 10>>

\* a PING with arguments has been answered, and one without
C2_Witness == \E c \in DOMAIN conn : \E i, j \in 1..Len(conn[c].log) :
    /\ HasName(conn[c].log[i].cmd) /\ Spells(NameOf(conn[c].log[i].cmd), <<80, 73, 78, 71>>)
    /\ ArgsOf(conn[c].log[i].cmd) # <<>>
    /\ conn[c].log[i].reply # <<>>
    /\ conn[c].log[j].cmd = Str(<<80, 73, 78, 71>>)

\* the texts joined by single spaces, built from the right
RECURSIVE JoinedBySpaces(_)
JoinedBySpaces(args) == IF args = <<>> THEN <<>>
                        ELSE IF Len(args) = 1 THEN args[1].s
                        ELSE JoinedBySpaces(Front(args)) \o <<32>> \o Last(args).s

\* the value of a string of decimal digits
RECURSIVE Decimal(_)
Decimal(d) == IF d = <<>> THEN 0 ELSE (Head(d) - 48) * (10 ^ (Len(d) - 1)) + Decimal(Tail(d))

\* reply is $<L>\r\n<J>\r\n with L the length of J in decimal
IsBulkReplyOf(reply, J) == LET k == Len(reply) - Len(J) - 5
                               d == SubSeq(reply, 2, 1 + k)
                           IN /\ k >= 1
                              /\ reply[1] = 36
                              /\ \A i \in 1..k : d[i] >= 48 /\ d[i] <= 57
                              /\ k > 1 => d[1] # 48
                              /\ Decimal(d) = Len(J)
                              /\ SubSeq(reply, 2 + k, 3 + k) = <<13, 10>>
                              /\ SubSeq(reply, 4 + k, 3 + k + Len(J)) = J
                              /\ SubSeq(reply, 4 + k + Len(J), Len(reply)) = <<13, 10>>

AllText(args) == \A i \in 1..Len(args) : args[i].t = "str"

\* C3: a request whose command name is ECHO with text arguments is answered
\* with exactly $<L>\r\n<J>\r\n, J the arguments joined by single spaces and
\* L the length of J; with no arguments the reply is $0\r\n\r\n.
C3_EchoRepliesJoinedBulkString == \A c \in DOMAIN conn : \A i \in 1..Len(conn[c].log) :
    LET e == conn[c].log[i]
    IN HasName(e.cmd) /\ Spells(NameOf(e.cmd), <<69, 67, 72, 79>>) /\ AllText(ArgsOf(e.cmd))
       => /\ IsBulkReplyOf(e.reply, JoinedBySpaces(ArgsOf(e.cmd)))
          /\ ArgsOf(e.cmd) = <<>> => e.reply = <<36, 48, 13, 10, 13, 10>>

\* ECHO hello world has been answered with $11\r\nhello world\r\n, and an
\* ECHO without arguments has been answered
C3_Witness == \E c \in DOMAIN conn : \E i, j \in 1..Len(conn[c].log) :
    /\ HasName(conn[c].log[i].cmd) /\ Spells(NameOf(conn[c].log[i].cmd), <<69, 67, 72, 79>>)
    /\ Len(ArgsOf(conn[c].log[i].cmd)) = 2
    /\ conn[c].log[i].reply = <<36, 49, 49, 13, 10, 104, 101, 108, 108, 111, 32, 119, 111, 114, 108, 100, 13, 10>>
    /\ Spells(NameOf(conn[c].log[j].cmd), <<69, 67, 72, 79>>)
    /\ ArgsOf(conn[c].log[j].cmd) = <<>>
    /\ conn[c].log[j].reply # <<>>

IsLetter(b) == (b >= 65 /\ b <= 90) \/ (b >= 97 /\ b <= 122)

\* two requests of the same form and arguments whose command names differ
\* at most in the case of their letters
DifferOnlyInCase(a, b) == /\ a.t = b.t
                          /\ HasName(a) /\ HasName(b)
                          /\ ArgsOf(a) = ArgsOf(b)
                          /\ Len(NameOf(a)) = Len(NameOf(b))
                          /\ \A i \in 1..Len(NameOf(a)) :
                                \/ NameOf(a)[i] = NameOf(b)[i]
                                \/ /\ IsLetter(NameOf(a)[i]) /\ IsLetter(NameOf(b)[i])
                                   /\ NameOf(a)[i] - NameOf(b)[i] \in {32, 0 - 32}

\* C4: two requests that differ only in the letter case of the command name
\* go to the same handler and get the same reply.
C4_CommandNameCaseInsensitive == \A c \in DOMAIN conn : \A i, j \in 1..Len(conn[c].log) :
    DifferOnlyInCase(conn[c].log[i].cmd, conn[c].log[j].cmd)
    => conn[c].log[i].handler = conn[c].log[j].handler /\ conn[c].log[i].reply = conn[c].log[j].reply

\* two requests with differently cased names have both been answered
C4_Witness == \E c \in DOMAIN conn : \E i, j \in 1..Len(conn[c].log) :
    /\ DifferOnlyInCase(conn[c].log[i].cmd, conn[c].log[j].cmd)
    /\ NameOf(conn[c].log[i].cmd) # NameOf(conn[c].log[j].cmd)
    /\ conn[c].log[i].reply # <<>>
    /\ conn[c].log[j].reply # <<>>

\* the coroutine ended on reading end-of-stream where a request begins,
\* right after requests that were sent whole and handled
ClosedAtEndOfStream(s) == /\ s.pc = "closed"
                          /\ \E k \in 1..Len(s.sent) : s.consumed = Wire(Take(s.sent, k)) /\ Len(s.log) = k
                          /\ s.eof
                          /\ s.stack = <<>>
                          /\ s.reqStart = Len(s.consumed)
                          /\ s.log # <<>>
                          /\ Last(s.log).at = Len(s.consumed)
                          /\ Last(s.log).handler \in {"handle_ping", "handle_echo", "none"}

\* C5: when the stream ends after a complete request, the loop ends without
\* raising an error.
C5_CleanEndOfStream == \A c \in DOMAIN conn : ClosedAtEndOfStream(conn[c]) => conn[c].error = "none"

\* C6: when the two bytes read after the content of a bulk string are not
\* \r\n, the decode fails: the coroutine ends and nothing is written or
\* dispatched for the request.
C6_MalformedBulkStringCloses == [][\A c \in DOMAIN conn :
    (/\ conn[c].pc = "read_data"
     /\ IF conn[c].stack = <<>> THEN FALSE ELSE Top(conn[c]).pc = "end_of_field"
     /\ Len(conn[c].stream) >= 2
     /\ Take(conn[c].stream, 2) # <<13, 10>>
     /\ Len(conn'[c].consumed) = Len(conn[c].consumed) + 2)
    => /\ conn'[c].pc = "closed"
       /\ conn'[c].error = "AssertionError"
       /\ conn'[c].out = conn[c].out
       /\ conn'[c].log = conn[c].log]_vars

\* a bulk string's two trailing bytes were read and were not \r\n
C6_Witness == \E c \in DOMAIN conn : /\ conn[c].pc = "closed"
                                     /\ conn[c].error = "AssertionError"
                                     /\ conn[c].stack # <<>>
                                     /\ Len(Last(conn[c].stack).end_of_field) = 2
                                     /\ Last(conn[c].stack).end_of_field # <<13, 10>>

\* the number of bytes consumed when request j of the script begins
Offset(sent, j) == Len(Wire(Take(sent, j - 1)))

\* request j of the script reached the connection whole: the peer did not
\* close before delivering its last byte
Delivered(s, j) == Len(s.consumed) + Len(s.stream) >= Offset(s.sent, j) + Len(s.sent[j].bytes)

\* C7: a valid bulk string of declared length N is decoded by consuming
\* its N content bytes and the 2-byte terminator, and encoding the decoded
\* text as a bulk string gives back the bytes that were sent.
C7_BulkStringRoundTrip == \A c \in DOMAIN conn : \A i \in 1..Len(conn[c].log) : \A j \in 1..Len(conn[c].sent) :
    LET s == conn[c]
        e == s.log[i]
        text == s.sent[j].texts[1]
    IN s.sent[j].form = "inline" /\ s.sent[j].enc = 36 /\ Offset(s.sent, j) = e.start /\ Delivered(s, j)
       => /\ e.end - e.start = 1 + Len(str(Len(text))) + 2 + Len(text) + 2
          /\ SubSeq(s.consumed, e.end - 1 - Len(text), e.end - 2) = text
          /\ SubSeq(s.consumed, e.end - 1, e.end) = <<13, 10>>
          /\ e.cmd.t = "str"
          /\ make_bulk_string(<<e.cmd>>) = s.sent[j].bytes

\* the values read_data has returned for a request that began at offset o
DecodedAt(s, o) == {s.log[i].cmd : i \in {i \in 1..Len(s.log) : s.log[i].start = o}} \cup (IF s.pc = "dispatch" /\ s.reqStart = o THEN {s.command} ELSE {})

\* C8: an array of declared count N whose elements are simple or bulk
\* strings decodes to a list of exactly N elements, the texts of the
\* elements in the order they were sent: once the bytes of the array have
\* been consumed that list has been returned, and nothing else is ever
\* returned for it.
C8_ArrayDecodesInOrder == \A c \in DOMAIN conn : \A j \in 1..Len(conn[c].sent) :
    LET s == conn[c]
        texts == s.sent[j].texts
        expected == List([k \in 1..Len(texts) |-> Str(rstrip(lstrip(texts[k])))])
        first == Offset(s.sent, j)
    IN s.sent[j].form = "array" /\ Delivered(s, j)
       => /\ \A v \in DecodedAt(s, first) : v.t = "list" /\ Len(v.l) = Len(texts) /\ v = expected
          /\ Len(s.consumed) >= first + Len(s.sent[j].bytes) => DecodedAt(s, first) # {}
          /\ \A i \in 1..Len(s.log) : s.log[i].start = first => RawOf(s, s.log[i]) = s.sent[j].bytes

\* an array of three different bulk strings has been decoded
C8_Witness == \E c \in DOMAIN conn : \E i \in 1..Len(conn[c].log) : \E j \in 1..Len(conn[c].sent) :
    /\ conn[c].sent[j].form = "array" /\ conn[c].sent[j].enc = 36
    /\ Offset(conn[c].sent, j) = conn[c].log[i].start
    /\ Delivered(conn[c], j)
    /\ Len(conn[c].log[i].cmd.l) = 3
    /\ conn[c].log[i].cmd.l[1] # conn[c].log[i].cmd.l[2]
    /\ conn[c].log[i].cmd.l[2] # conn[c].log[i].cmd.l[3]
    /\ conn[c].log[i].cmd.l[1] # conn[c].log[i].cmd.l[3]

\* the bytes of b before its first \r\n
RECURSIVE FieldOf(_)
FieldOf(b) == IF Len(b) < 2 THEN b
              ELSE IF Take(b, 2) = <<13, 10>> THEN <<>>
              ELSE <<Head(b)>> \o FieldOf(Tail(b))

\* the token is a non-negative integer
IsLength(token) == int(token).ok /\ int(token).v >= 0

\* C9: a bulk string length or array count that is not a non-negative
\* integer makes the decode fail: the reader that parsed it raises, and no
\* request that begins with such a token reaches the dispatcher.
C9_InvalidLengthFails == \A c \in DOMAIN conn :
    LET s == conn[c]
    IN /\ \A k \in 1..Len(s.stack) :
            (/\ s.stack[k].fn \in {"read_bulk_string", "read_array"}
             /\ endswith(s.stack[k].content, <<13, 10>>)
             /\ ~IsLength(s.stack[k].content))
            => s.pc = "closed" /\ s.error = "ValueError" /\ k = Len(s.stack)
       /\ (/\ s.pc = "dispatch"
           /\ s.consumed[s.reqStart + 1] \in {36, 42}
           /\ FieldOf(SubSeq(s.consumed, s.reqStart + 2, Len(s.consumed))) # SubSeq(s.consumed, s.reqStart + 2, Len(s.consumed)))
            => IsLength(FieldOf(SubSeq(s.consumed, s.reqStart + 2, Len(s.consumed))))

\* the request has a command name that is neither PING nor ECHO
Unrecognized(cmd) == /\ HasName(cmd)
                     /\ ~Spells(NameOf(cmd), <<80, 73, 78, 71>>)
                     /\ ~Spells(NameOf(cmd), <<69, 67, 72, 79>>)

\* C10: a request whose command name is neither PING nor ECHO gets no
\* reply and raises nothing: until the next read the coroutine is at the top
\* of its loop, awaiting a request.
C10_UnrecognizedCommandIgnored == \A c \in DOMAIN conn : \A i \in 1..Len(conn[c].log) :
    LET s == conn[c]
        e == s.log[i]
    IN Unrecognized(e.cmd)
       => /\ e.reply = <<>>
          /\ e.handler = "none"
          /\ (i = Len(s.log) /\ s.reqStart = e.start) => s.pc = "read_data" /\ s.stack = <<>> /\ s.error = "none"

\* an unrecognized command was passed over and the PING after it answered
C10_Witness == \E c \in DOMAIN conn : /\ Len(conn[c].log) = 2
                                      /\ Unrecognized(conn[c].log[1].cmd)
                                      /\ conn[c].out = <<43, 80, 79, 78, 71, 13, 10>>
                                      /\ conn[c].log[2].reply = <<43, 80, 79, 78, 71, 13, 10>>

\* the replies the requests of a script get when the connection is served
\* alone: +PONG\r\n for the PING, $0\r\n\r\n for the ECHO, nothing otherwise
AloneOutput(sent) == IF sent = <<InlineReq(43, <<80, 73, 78, 71>>)>> THEN <<43, 80, 79, 78, 71, 13, 10>>
                     ELSE IF sent = <<ArrayReq(43, <<<<69, 67, 72, 79>>>>)>> THEN <<36, 48, 13, 10, 13, 10>>
                     ELSE <<>>

\* C11: with several connections served concurrently, a step of one
\* connection, a failure included, leaves every other connection as it was,
\* and what a connection has written is a prefix of what its own input gets
\* when served alone.
C11_ConnectionsIndependent == [][\A c \in DOMAIN conn :
    /\ conn'[c] # conn[c] => \A d \in DOMAIN conn \ {c} : conn'[d] = conn[d]
    /\ conn'[c].out \in {<<>>, AloneOutput(conn'[c].sent)}
    /\ (Len(conn'[c].consumed) = Len(Wire(conn'[c].sent)) /\ conn'[c].pc = "read_data" /\ conn'[c].stack = <<>>)
         => conn'[c].out = AloneOutput(conn'[c].sent)]_vars

\* one connection has failed on a malformed request and the other has since
\* been answered in full and is awaiting its next request
C11_Witness == \E c, d \in DOMAIN conn : /\ c # d
                                         /\ conn[c].pc = "closed"
                                         /\ conn[c].error = "AssertionError"
                                         /\ conn[d].pc = "read_data"
                                         /\ conn[d].out = <<43, 80, 79, 78, 71, 13, 10>>

\* C12: every decode or dispatch error ends the coroutine, and the end is
\* final: from then on nothing is read from the connection and nothing is
\* written to it, whatever bytes the peer still has to deliver.
C12_ClosedIsTerminal == [][\A c \in DOMAIN conn :
    /\ conn'[c].error # "none" => conn'[c].pc = "closed"
    /\ conn[c].pc = "closed" => /\ conn'[c].pc = "closed"
                                /\ conn'[c].error = conn[c].error
                                /\ conn'[c].consumed = conn[c].consumed
                                /\ conn'[c].out = conn[c].out
                                /\ conn'[c].log = conn[c].log
                                /\ conn'[c].stack = conn[c].stack]_vars

\* a connection has failed on a malformed request while the PING that
\* follows it is still to be read
C12_Witness == \E c \in DOMAIN conn : /\ conn[c].pc = "closed"
                                      /\ conn[c].error \in {"ValueError", "AssertionError", "AttributeError", "TypeError", "UnicodeDecodeError"}
                                      /\ conn[c].stream = <<43, 80, 73, 78, 71, 13, 10>>
                                      /\ conn[c].out = <<>>

\* C13: a decoded list in which some element, command name or argument, is
\* itself a list is a dispatch error for every command, and gets no reply.
C13_ListElementsMustBeText == \A c \in DOMAIN conn : \A i \in 1..Len(conn[c].log) :
    LET e == conn[c].log[i]
    IN (e.cmd.t = "list" /\ \E k \in 1..Len(e.cmd.l) : e.cmd.l[k].t = "list")
       => e.reply = <<>> /\ e.handler \notin {"handle_ping", "handle_echo", "none"}

\* what the dispatcher does with value: the handler it reaches and the reply
\* it writes
Outcome(s, value) == LET e == Last(handle_command([s EXCEPT !.command = value]).log)
                     IN [handler |-> e.handler, reply |-> e.reply]

\* C14: a request decoded as a bare text is dispatched as the one-element
\* list holding that text: same handler, same reply, and the same as any
\* one-element list with that text dispatched on the connection.
C14_InlineIsOneElementArray == \A c \in DOMAIN conn : \A i \in 1..Len(conn[c].log) :
    LET s == conn[c]
        e == s.log[i]
    IN e.cmd.t = "str"
       => /\ [handler |-> e.handler, reply |-> e.reply] = Outcome(s, List(<<e.cmd>>))
          /\ \A j \in 1..Len(s.log) : s.log[j].cmd = List(<<e.cmd>>) => s.log[j].handler = e.handler /\ s.log[j].reply = e.reply

\* a one-element array ECHO and then an inline ECHO were both answered $0
C14_Witness == \E c \in DOMAIN conn : /\ Len(conn[c].log) = 2
                                      /\ conn[c].log[1].cmd = List(<<Str(<<69, 67, 72, 79>>)>>)
                                      /\ conn[c].log[2].cmd = Str(<<69, 67, 72, 79>>)
                                      /\ conn[c].log[2].reply = <<36, 48, 13, 10, 13, 10>>
                                      /\ conn[c].out = <<36, 48, 13, 10, 13, 10, 36, 48, 13, 10, 13, 10>>

\* C15: when the stream ends before every declared element of an array has
\* arrived, the decode of that array fails: no list is returned to the
\* dispatcher for it and no reply is written for it.
C15_TruncatedArrayFails == \A c \in DOMAIN conn : \A j \in 1..Len(conn[c].sent) :
    LET s == conn[c]
    IN s.sent[j].form = "array" /\ Len(s.sent[j].texts) >= 1 /\ ~Delivered(s, j)
       => /\ DecodedAt(s, Offset(s.sent, j)) = {}
          /\ Len(s.out) = Len(Flatten([i \in 1..Len(s.log) |-> IF s.log[i].start < Offset(s.sent, j) THEN s.log[i].reply ELSE <<>>]))

\* C16: a simple string whose \r\n never arrived because the stream closed
\* first is not returned as a value: it is neither dispatched as a command
\* nor answered.
C16_TruncatedFieldNotDispatched == \A c \in DOMAIN conn : \A j \in 1..Len(conn[c].sent) :
    LET s == conn[c]
    IN s.sent[j].form = "inline" /\ s.sent[j].enc = 43 /\ ~Delivered(s, j)
       => /\ DecodedAt(s, Offset(s.sent, j)) = {}
          /\ \A i \in 1..Len(s.log) : s.log[i].reply # <<>> => endswith(RawOf(s, s.log[i]), END_OF_FIELD)

\* C17: a valid bulk string that reached the connection whole is decoded
\* however its bytes were split across arrivals: the coroutine never ends
\* inside it, and once its bytes are consumed its value has been returned.
C17_BulkDecodeIgnoresSegmentation == \A c \in DOMAIN conn : \A j \in 1..Len(conn[c].sent) :
    LET s == conn[c]
        first == Offset(s.sent, j)
        last == Offset(s.sent, j) + Len(s.sent[j].bytes)
    IN s.sent[j].form = "inline" /\ s.sent[j].enc = 36 /\ Delivered(s, j)
       => /\ ~(s.pc = "closed" /\ first < Len(s.consumed) /\ Len(s.consumed) < last)
          /\ Len(s.consumed) >= last => DecodedAt(s, first) # {}

\* the index in b of the \r of the first \r\n, 0 when b holds none
FirstMark(b) == LET marks == {i \in 1..(Len(b) - 1) : b[i] = 13 /\ b[i + 1] = 10}
                IN IF marks = {} THEN 0 ELSE CHOOSE i \in marks : \A k \in marks : i <= k

\* the length of the reply b begins with, a simple string or a bulk string;
\* 0 when b does not begin with a whole reply
ReplyLen(b) == LET mark == FirstMark(b)
                   length == int(SubSeq(b, 2, mark - 1))
                   n == mark + 1 + length.v + 2
               IN IF mark = 0 THEN 0
                  ELSE IF Head(b) = 43 THEN mark + 1
                  ELSE IF Head(b) = 36 /\ length.ok /\ length.v >= 0
                       THEN (IF n <= Len(b) /\ SubSeq(b, n - 1, n) = <<13, 10>> THEN n ELSE 0)
                  ELSE 0

\* the number of replies b is made of; negative when b is not a sequence of
\* whole replies
RECURSIVE CountReplies(_)
CountReplies(b) == IF b = <<>> THEN 0
                   ELSE LET n == ReplyLen(b)
                        IN IF n = 0 THEN 0 - 1000 ELSE 1 + CountReplies(Drop(b, n))

\* C18: the replies written on a connection are at most as many as the
\* requests decoded; each is the one reply of one decoded request whose
\* command name is PING or ECHO in some letter case, and no request gets
\* more than one reply.
C18_AtMostOneReplyPerRequest == \A c \in DOMAIN conn :
    LET s == conn[c]
        answered == {i \in 1..Len(s.log) : s.log[i].reply # <<>>}
        written == CountReplies(s.out)
    IN /\ written >= 0
       /\ written <= Len(s.log)
       /\ written = Cardinality(answered)
       /\ s.out = Flatten([i \in 1..Len(s.log) |-> s.log[i].reply])
       /\ \A i \in 1..Len(s.log) : CountReplies(s.log[i].reply) \in {0, 1}
       /\ \A i \in answered : /\ HasName(s.log[i].cmd)
                              /\ Spells(NameOf(s.log[i].cmd), <<80, 73, 78, 71>>) \/ Spells(NameOf(s.log[i].cmd), <<69, 67, 72, 79>>)

\* an ECHO with two arguments was answered and the unrecognized command
\* after it was not: two requests decoded, one reply written
C18_Witness == \E c \in DOMAIN conn : /\ Len(conn[c].log) = 2
                                      /\ Spells(NameOf(conn[c].log[1].cmd), <<69, 67, 72, 79>>)
                                      /\ Len(ArgsOf(conn[c].log[1].cmd)) = 2
                                      /\ conn[c].log[2].reply = <<>>
                                      /\ conn[c].out # <<>>
                                      /\ CountReplies(conn[c].out) = 1

\* C20: a request that decodes to the empty list has no command name: it
\* is not answered, the unpacking raises ValueError and ends the coroutine,
\* and nothing after it on the connection is read or answered.
C20_EmptyListEndsLoop == \A c \in DOMAIN conn : \A i \in 1..Len(conn[c].log) :
    LET s == conn[c]
        e == s.log[i]
    IN e.cmd = List(<<>>)
       => /\ e.reply = <<>>
          /\ e.handler = "ValueError"
          /\ i = Len(s.log)
          /\ s.pc = "closed" /\ s.error = "ValueError"
          /\ Len(s.consumed) = e.end
          /\ s.out = Flatten([k \in 1..(i - 1) |-> s.log[k].reply])

\* *0\r\n ended the coroutine while the PING sent after it is still unread
C20_Witness == \E c \in DOMAIN conn : /\ conn[c].log # <<>>
                                      /\ Last(conn[c].log).cmd = List(<<>>)
                                      /\ conn[c].consumed = <<42, 48, 13, 10>>
                                      /\ conn[c].stream = <<43, 80, 73, 78, 71, 13, 10>>
                                      /\ conn[c].pc = "closed"
                                      /\ conn[c].out = <<>>

\* C19: on every connection whose peer has closed after sending finitely
\* many bytes the coroutine eventually ends: no reading loop goes on once
\* the reads return empty, and the coroutine does not stay at the top of its
\* loop awaiting a request on the exhausted stream.
C19_LoopEventuallyStops == \A c \in Conns : conn[c].eof ~> (conn[c].pc = "closed")

\* the stream ended inside the content of a bulk string and the coroutine
\* has ended
C19_Witness == \E c \in DOMAIN conn : /\ conn[c].eof
                                      /\ conn[c].pc = "closed"
                                      /\ conn[c].stack # <<>>
                                      /\ Top(conn[c]).fn = "read_bulk_string"
                                      /\ Top(conn[c]).n = 2
                                      /\ Len(Top(conn[c]).bytes_read) = 1

====
